---- MODULE Spec2Model ----
(***************************************************************************)
(* Model of the fedora-packager launcher extension (src/main.py).          *)
(*                                                                         *)
(* A Python str is a sequence of one-character strings, so that split(),   *)
(* strip(), startswith(), len() and indexing are computed on characters.   *)
(* Text the code only passes through (icons, fixed descriptions, URL       *)
(* prefixes) is kept as an atom next to its character-level parameters.    *)
(* The host launcher delivers one query event at a time (keyword,          *)
(* argument); on_event runs to completion and returns a value.             *)
(***************************************************************************)
EXTENDS Integers, Sequences, FiniteSets

VARIABLES
    pc,        \* "idle" | "pending" (event queued for on_event) | "done" (on_event returned)
    keyword,   \* event.get_keyword()
    argument,  \* event.get_argument()
    action,    \* the function on_event dispatched to ("none" when it fell through)
    ret,       \* the value on_event returned: [kind, items]
    calls,     \* network / RPC calls made by the last on_event, with their responses
    clock,     \* the readings of datetime.now() taken by the last on_event, in order
    selected   \* the item the user selected last (history of the drill-down)

vars == <<pc, keyword, argument, action, ret, calls, clock, selected>>

(***************************************************************************)
(* Bounds of the model.                                                    *)
(***************************************************************************)
MaxProjects == 2   \* projects in one search response (besides the over-long one)
MaxPages    == 2   \* pages of the user-repositories endpoint
MaxBuilds   == 2   \* build records in one listBuilds response
MaxDrift    == 1   \* clock ticks that may pass between two readings of now()
MaxUpdates  == 2   \* updates in one query response
TicksPerSec == 4   \* clock ticks in one second (the resolution of a timestamp)

(***************************************************************************)
(* Python str / list primitives.                                           *)
(***************************************************************************)
IsSpace(c) == c \in {" ", "\t"}

Truthy(s) == s # <<>>

\* index of the first character of s satisfying IsSpace, Len(s)+1 if none
FirstSpace(s) ==
    IF \E i \in 1..Len(s) : IsSpace(s[i])
    THEN CHOOSE i \in 1..Len(s) : IsSpace(s[i]) /\ \A j \in 1..(i-1) : ~IsSpace(s[j])
    ELSE Len(s) + 1

\* str.split() with no separator: runs of whitespace separate, no empty tokens
RECURSIVE Split(_)
Split(s) ==
    IF s = <<>> THEN <<>>
    ELSE IF IsSpace(Head(s)) THEN Split(Tail(s))
    ELSE LET n == FirstSpace(s)
         IN  <<SubSeq(s, 1, n - 1)>> \o Split(SubSeq(s, n, Len(s)))

\* str.split(sep) with a one-character separator: empty pieces are kept
RECURSIVE SplitOn(_, _)
SplitOn(s, sep) ==
    IF \E i \in 1..Len(s) : s[i] = sep
    THEN LET n == CHOOSE i \in 1..Len(s) : s[i] = sep /\ \A j \in 1..(i-1) : s[j] # sep
         IN  <<SubSeq(s, 1, n - 1)>> \o SplitOn(SubSeq(s, n + 1, Len(s)), sep)
    ELSE <<s>>

\* str.strip()
RECURSIVE Strip(_)
Strip(s) ==
    IF s = <<>> THEN <<>>
    ELSE IF IsSpace(Head(s)) THEN Strip(Tail(s))
    ELSE IF IsSpace(s[Len(s)]) THEN Strip(SubSeq(s, 1, Len(s) - 1))
    ELSE s

\* str.startswith(prefix)
StartsWith(s, prefix) ==
    /\ Len(prefix) <= Len(s)
    /\ SubSeq(s, 1, Len(prefix)) = prefix

\* seq[-1]
Last(s) == s[Len(s)]

\* sorted(items, key=...): a stable sort; less[i, j] is key(items[i]) < key(items[j])
Sorted(items, less) ==
    LET n == Len(items)
        pos(i) == 1 + Cardinality({j \in 1..n :
                        \/ less[j, i]
                        \/ (~less[i, j] /\ j < i)})
    IN  [k \in 1..n |-> items[CHOOSE i \in 1..n : pos(i) = k]]

\* the sequences over S of length at most n
SeqUpTo(S, n) == UNION {[1..k -> S] : k \in 0..n}

(***************************************************************************)
(* Result items and the actions attached to them.                          *)
(***************************************************************************)
ExtensionResultItem(icon, kw, name, description, on_enter) ==
    [icon |-> icon, keyword |-> kw, name |-> name,
     description |-> description, on_enter |-> on_enter]

SetUserQueryAction(text) == [type |-> "SetUserQueryAction", arg |-> text]
HideWindowAction == [type |-> "HideWindowAction", arg |-> <<>>]
OpenUrlAction(prefix, rest) ==
    [type |-> "OpenUrlAction", arg |-> [prefix |-> prefix, rest |-> rest]]

RenderResultListAction(items) == [kind |-> "RenderResultListAction", items |-> items]
BareList(items) == [kind |-> "list", items |-> items]
NoAction == [kind |-> "None", items |-> <<>>]

(***************************************************************************)
(* get_package_options and the option filter.                              *)
(***************************************************************************)
get_package_options(kw, package) ==
    << ExtensionResultItem("images/pagure.png", kw,
           <<"G","o","t","o"," ">> \o package \o <<" ","s","r","c">>,
           [fmt |-> "Open the dist-git for {} in a browser.", of |-> package],
           OpenUrlAction("https://src.fedoraproject.org/rpms/", package)),
       ExtensionResultItem("images/koji.png", kw,
           kw \o <<" ">> \o package \o <<" ","b","u","i","l","d","s">>,
           [fmt |-> "Lists recent builds for {}", of |-> package],
           SetUserQueryAction(kw \o <<" ">> \o package \o <<" ","b","u","i","l","d","s">>)),
       ExtensionResultItem("images/bodhi.png", kw,
           kw \o <<" ">> \o package \o <<" ","u","p","d","a","t","e","s">>,
           [fmt |-> "Lists recent updates for {}", of |-> package],
           SetUserQueryAction(kw \o <<" ">> \o package \o <<" ","u","p","d","a","t","e","s">>)) >>

\* mutant: the first word of the title instead of the last
option_from_result_first(result) == Split(result.name)[1]

option_from_result(result) == Last(Split(result.name))

filter_options(opts, filt) ==
    SelectSeq(opts, LAMBDA opt : StartsWith(option_from_result(opt), filt))

(***************************************************************************)
(* search_pkg_src.                                                         *)
(***************************************************************************)
per_page == 20

NS_ORDER == [ns \in {<<"r","p","m","s">>, <<"f","o","r","k">>} |->
                IF ns = <<"r","p","m","s">> THEN 0 ELSE 1]

\* NS_ORDER.get(x.name.split("/")[0], 2)
ns_rank(name) ==
    LET ns == SplitOn(name, "/")[1]
    IN  IF ns \in DOMAIN NS_ORDER THEN NS_ORDER[ns] ELSE 2

\* mutant: the sort key is the name length alone
search_key_less_len(a, b) == Len(a.name) < Len(b.name)

\* the sort key (NS_ORDER.get(...), len(x.name)) of a precedes that of b
search_key_less(a, b) ==
    \/ ns_rank(a.name) < ns_rank(b.name)
    \/ (ns_rank(a.name) = ns_rank(b.name) /\ Len(a.name) < Len(b.name))

search_request(search_arg) ==
    [fn |-> "GET https://src.fedoraproject.org/api/0/projects",
     arg |-> [pattern |-> <<"*">> \o Strip(search_arg) \o <<"*">>,
              short |-> 1, per_page |-> per_page, fork |-> FALSE]]

\* mutant: the rewritten query lacks the trailing space
project_on_enter_nospace(kw, project) ==
    SetUserQueryAction(kw \o <<" ">> \o project.name)

\* the on_enter of a project item: SetUserQueryAction(keyword + " " + project["name"] + " ")
project_on_enter(kw, project) ==
    SetUserQueryAction(kw \o <<" ">> \o project.name \o <<" ">>)

project_item(kw, project) ==
    ExtensionResultItem("images/pagure.png", kw, project.fullname,
                        project.description, project_on_enter(kw, project))

\* res.json().get("projects", [])
json_projects(json) == IF "projects" \in DOMAIN json THEN json.projects ELSE <<>>

search_items(kw, search_arg, json) ==
    LET projects == json_projects(json)
        items == [i \in 1..Len(projects) |-> project_item(kw, projects[i])]
    IN  Sorted(items, [i, j \in 1..Len(items) |-> search_key_less(items[i], items[j])])

search_pkg_src(kw, search_arg, json) ==
    LET items == search_items(kw, search_arg, json)
    IN  IF items = <<>>
        THEN RenderResultListAction(
                 <<ExtensionResultItem("images/pagure.png", kw,
                       <<"N","o","t","h","i","n","g"," ","f","o","u","n","d">>,
                       search_request(search_arg), HideWindowAction)>>)
        ELSE RenderResultListAction(items)

(***************************************************************************)
(* fetch_user_projects and return_project_list.  The user-repositories     *)
(* endpoint is a sequence of pages; the URL of a page is its index, the    *)
(* first URL is 1 and an absent cursor is 0 (Python None, falsy).          *)
(***************************************************************************)
NoUrl == 0

\* rsp_data.get("repos_pagination", {}).get("next")
next_url(rsp_data) ==
    IF "repos_pagination" \in DOMAIN rsp_data
    THEN rsp_data.repos_pagination.next
    ELSE NoUrl

\* mutant: the cursor is not followed, only the page at fetch_url is read
fetch_loop_single(site, fetch_url, projects, requested) ==
    IF "repos" \notin DOMAIN site[fetch_url]
    THEN [projects |-> projects, requested |-> <<fetch_url>>, raised |-> TRUE]
    ELSE [projects |-> site[fetch_url].repos, requested |-> <<fetch_url>>, raised |-> FALSE]

\* the while loop of fetch_user_projects from fetch_url on: the repositories
\* accumulated, the URLs requested, and whether an exception ended the loop
\* (session.get / rsp.json() raising, or iterating rsp_data.get("repos") = None)
RECURSIVE fetch_loop(_, _, _, _)
fetch_loop(site, fetch_url, projects, requested) ==
    IF fetch_url = NoUrl
    THEN [projects |-> projects, requested |-> requested, raised |-> FALSE]
    ELSE LET rsp_data == site[fetch_url]
             asked == Append(requested, fetch_url)
         IN  IF "repos" \notin DOMAIN rsp_data
             THEN [projects |-> projects, requested |-> asked, raised |-> TRUE]
             ELSE fetch_loop(site, next_url(rsp_data),
                             projects \o rsp_data.repos, asked)

fetch_user_projects(site) == fetch_loop(site, 1, <<>>, <<>>)

Raised == [kind |-> "raise", items |-> <<>>]

return_project_list(kw, site) ==
    LET fetched == fetch_user_projects(site)
        projects == fetched.projects
    IN  IF fetched.raised THEN Raised
        ELSE RenderResultListAction(
                 [i \in 1..Len(projects) |-> project_item(kw, projects[i])])

(***************************************************************************)
(* get_builds.  Times are integers counting ticks of 1/TicksPerSec second  *)
(* (timestamps are floats in the code); int() truncates to whole seconds.  *)
(***************************************************************************)
build_age_days == 7
NoTs == 0 - 1          \* a timestamp field that is None

\* timedelta(days=build_age_days), in ticks
build_age == build_age_days * 86400 * TicksPerSec

\* mutant: the cutoff is rounded up to the next whole second, not truncated
cutoff_ts_ceil(now) == (now - build_age + TicksPerSec - 1) \div TicksPerSec

\* cutoff_ts = int((datetime.now() - timedelta(days=build_age_days)).timestamp()), in seconds
cutoff_ts(now) == (now - build_age) \div TicksPerSec

\* a or b or c on timestamps: None and 0 are falsy
useful_time_ts(build) ==
    IF build.completion_ts # NoTs /\ build.completion_ts # 0 THEN build.completion_ts
    ELSE IF build.start_ts # NoTs /\ build.start_ts # 0 THEN build.start_ts
    ELSE build.creation_ts

\* strftime("%Y-%m-%d %H:%M:%S %Z"): the timestamp to the second
strftime(ts) == ts \div TicksPerSec

\* koji.BUILD_STATES[state]
BUILD_STATES ==
    [st \in 0..4 |-> CASE st = 0 -> "BUILDING" [] st = 1 -> "COMPLETE" [] st = 2 -> "DELETED"
                       [] st = 3 -> "FAILED"   [] st = 4 -> "CANCELED"]

\* item.sort_key = (datetime.now().astimezone() - useful_time_dt).total_seconds()
sort_key(now, build) == now - useful_time_ts(build)

\* build.get("owner_name") or build.get("owner_id", "Unknown User")
build_user(build) ==
    IF "owner_name" \in DOMAIN build /\ build.owner_name # ""
    THEN build.owner_name
    ELSE IF "owner_id" \in DOMAIN build THEN build.owner_id ELSE "Unknown User"

build_item(kw, build, now) ==
    [icon |-> "images/koji.png", keyword |-> kw,
     name |-> [nvr |-> build.nvr, state |-> BUILD_STATES[build.state]],
     description |-> [user |-> build_user(build),
                      useful_time |-> strftime(useful_time_ts(build))],
     on_enter |-> OpenUrlAction("https://koji.fedoraproject.org/koji/buildinfo?buildID=",
                                build.build_id),
     sort_key |-> sort_key(now, build)]

sort_key_less(a, b) == a.sort_key < b.sort_key

\* the items of get_builds for the builds listed; readings[i] is the now() read for build i
build_items(kw, builds, readings) ==
    LET items == [i \in 1..Len(builds) |-> build_item(kw, builds[i], readings[i])]
    IN  Sorted(items, [i, j \in 1..Len(items) |-> sort_key_less(items[i], items[j])])

\* pkginfo is the answer of getPackage: <<>> (nothing) or <<[id |-> n]>>
get_builds(kw, package, pkginfo, builds, readings) ==
    IF pkginfo = <<>>
    THEN BareList(<<ExtensionResultItem("images/koji.png", <<>>,
                        [fmt |-> "Nothing found for {}", of |-> package],
                        "", HideWindowAction)>>)
    ELSE IF builds = <<>>
    THEN RenderResultListAction(
             <<ExtensionResultItem("images/koji.png", kw,
                   <<"N","o","t","h","i","n","g"," ","f","o","u","n","d">>,
                   [fmt |-> "No recent ({} days) builds found", of |-> build_age_days],
                   HideWindowAction)>>)
    ELSE RenderResultListAction(build_items(kw, builds, readings))

(***************************************************************************)
(* get_updates.                                                            *)
(***************************************************************************)
\* str(karma) for the karma values of the model
str(n) == IF n < 0 THEN <<"-", "1">> ELSE IF n = 0 THEN <<"0">> ELSE <<"1">>

\* the code points of the characters that occur in update descriptions
ord(c) ==
    CASE c = " " -> 32 [] c = "-" -> 45 [] c = "0" -> 48 [] c = "1" -> 49 [] c = "2" -> 50
      [] c = "9" -> 57 [] c = ":" -> 58 [] c = "a" -> 97 [] c = "b" -> 98 [] c = "k" -> 107
      [] c = "m" -> 109 [] c = "r" -> 114

\* s < t for Python str: lexicographic by code point, a proper prefix is smaller
RECURSIVE str_less(_, _)
str_less(s, t) ==
    IF t = <<>> THEN FALSE
    ELSE IF s = <<>> THEN TRUE
    ELSE IF ord(Head(s)) # ord(Head(t)) THEN ord(Head(s)) < ord(Head(t))
    ELSE str_less(Tail(s), Tail(t))

update_item(kw, update) ==
    ExtensionResultItem("images/bodhi.png", kw,
        [title |-> update.title, status |-> update.status],
        update.date_submitted \o <<" ","-"," ">> \o update.user.name
            \o <<" ","-"," ","k","a","r","m","a",":"," ">> \o str(update.karma),
        OpenUrlAction("", update.url))

\* key order of sorted(items, key=lambda x: x.description, reverse=True)
description_greater(a, b) == str_less(b.description, a.description)

\* res.get("updates", [])
json_updates(res) == IF "updates" \in DOMAIN res THEN res.updates ELSE <<>>

get_updates(kw, package, res) ==
    LET updates == json_updates(res)
        items == [i \in 1..Len(updates) |-> update_item(kw, updates[i])]
    IN  IF items = <<>>
        THEN RenderResultListAction(
                 <<ExtensionResultItem("images/bodhi.png", kw,
                       <<"N","o","t","h","i","n","g"," ","f","o","u","n","d">>,
                       "No current updates found", HideWindowAction)>>)
        ELSE RenderResultListAction(
                 Sorted(items, [i, j \in 1..Len(items) |->
                                   description_greater(items[i], items[j])]))

(***************************************************************************)
(* on_event: the branch taken for an argument.                             *)
(***************************************************************************)
\* mutant: the trailing space is not looked at, one token is always searched for
on_event_branch_nospace(arg) ==
    IF ~Truthy(arg) THEN "return_project_list"
    ELSE LET args == Split(arg)
         IN  IF Len(args) = 1 THEN "search_pkg_src"
             ELSE IF Len(args) = 2
                  THEN IF args[2] = <<"b","u","i","l","d","s">> THEN "get_builds"
                       ELSE IF args[2] = <<"u","p","d","a","t","e","s">> THEN "get_updates"
                       ELSE "filter"
             ELSE "none"

on_event_branch(arg) ==
    IF ~Truthy(arg) THEN "return_project_list"
    ELSE LET args == Split(arg)
         IN  IF Len(args) = 1 /\ Last(arg) # " " THEN "search_pkg_src"
             ELSE IF Len(args) = 1 THEN "get_package_options"
             ELSE IF Len(args) = 2
                  THEN IF args[2] = <<"b","u","i","l","d","s">> THEN "get_builds"
                       ELSE IF args[2] = <<"u","p","d","a","t","e","s">> THEN "get_updates"
                       ELSE "filter"
             ELSE "none"

(***************************************************************************)
(* The host: the query it holds is "<keyword> <argument>".                 *)
(***************************************************************************)
\* the query's first whitespace-delimited word
HostKeyword(text) == Split(text)[1]

\* what follows the first word and the whitespace after it; <<>> if nothing does
RECURSIVE LStrip(_)
LStrip(s) == IF s # <<>> /\ IsSpace(Head(s)) THEN LStrip(Tail(s)) ELSE s

HostArgument(text) ==
    LET t == LStrip(text)
    IN  LStrip(SubSeq(t, FirstSpace(t), Len(t)))

(***************************************************************************)
(* The inputs: what the user types and what the services answer.           *)
(***************************************************************************)
Keywords == {<<"f","p","k","g">>, <<"f","p">>}

Pkg == <<"r","a">>
Builds == <<"b","u","i","l","d","s">>
Updates == <<"u","p","d","a","t","e","s">>

SecondWords ==
    {Builds, Updates, <<"b","u","i">>, <<"u","p">>, <<"s">>, <<"s","r","c">>, <<"b">>,
     <<"z","z">>, <<"b","u","i","l","d","s","x">>, <<"B","u","i","l","d","s">>}

Args ==
    {<<>>, <<" ">>, <<"\t">>, <<" ", " ">>,
     Pkg, <<" ">> \o Pkg, Pkg \o <<"\t">>, Pkg \o <<" ">>, Pkg \o <<" ", " ">>,
     <<" ">> \o Pkg \o <<" ">>,
     Pkg \o <<" ", " ">> \o Builds \o <<" ">>, Pkg \o <<"\t">> \o <<"u","p">>,
     Pkg \o <<" ">> \o Updates \o <<"\t">>,
     Pkg \o <<" ">> \o Builds \o <<" ", "x">>, Pkg \o <<" ", "b", " ", "u">>,
     Pkg \o <<" ", "b", " ", "u", " ", "s">>}
    \cup {Pkg \o <<" ">> \o w : w \in SecondWords}

Project(ns, name) ==
    [fullname |-> ns \o <<"/">> \o name, name |-> name, description |-> "description"]

ProjectPool ==
    {Project(<<"r","p","m","s">>, <<"r","a">>), Project(<<"r","p","m","s">>, <<"r","a","b">>),
     Project(<<"f","o","r","k">>, <<"r","a">>), Project(<<"f","o","r","k","s","/","u">>, <<"r","a">>),
     Project(<<"a","p","p","s">>, <<"r","a">>)}

\* the JSON bodies of the search endpoint: at most MaxProjects projects, an
\* object without "projects", and a page longer than the per_page asked for
SearchResponses ==
    {[projects |-> ps] : ps \in SeqUpTo(ProjectPool, MaxProjects)}
    \cup {[error |-> "Invalid datas"]}
    \cup {[projects |-> [i \in 1..(per_page + 1) |-> Project(<<"r","p","m","s">>, <<"r","a">>)]]}

RepoPages ==
    {<<>>, <<Project(<<"r","p","m","s">>, <<"r","a">>)>>,
     <<Project(<<"r","p","m","s">>, <<"r","a">>), Project(<<"f","o","r","k">>, <<"r","a","b">>)>>,
     <<Project(<<"f","o","r","k">>, <<"r","a","b">>), Project(<<"r","p","m","s">>, <<"r","a">>)>>}

\* page i of n: its repositories and its cursor (the next index, None on the
\* last page, or no repos_pagination at all), or a body without "repos"
PageChoices ==
    {[repos |-> rs, cursor |-> c] : rs \in RepoPages, c \in BOOLEAN}
    \cup {[error |-> "No user found"]}

Page(choice, i, n) ==
    IF "repos" \notin DOMAIN choice THEN choice
    ELSE IF i < n
         THEN [repos |-> choice.repos, repos_pagination |-> [next |-> i + 1]]
    ELSE IF choice.cursor
         THEN [repos |-> choice.repos, repos_pagination |-> [next |-> NoUrl]]
    ELSE [repos |-> choice.repos]

Sites ==
    UNION {{[i \in 1..n |-> Page(ch[i], i, n)] : ch \in [1..n -> PageChoices]} : n \in 1..MaxPages}

\* now() when get_builds computes the cutoff: the cutoff falls just below, on
\* and just above a whole second
NowValues ==
    {build_age + TicksPerSec - 1, build_age + TicksPerSec, build_age + 2 * TicksPerSec - 1}

Build(creation, start, completion) ==
    [nvr |-> "ra-1.0-1", state |-> IF completion # NoTs THEN 1 ELSE 0,
     owner_name |-> "packager", owner_id |-> 1,
     creation_ts |-> creation, start_ts |-> start, completion_ts |-> completion,
     build_id |-> 0]

BuildPool ==
    {Build(TicksPerSec, NoTs, NoTs),
     Build(TicksPerSec + 1, NoTs, NoTs),
     Build(2 * TicksPerSec, 2 * TicksPerSec + 1, NoTs),
     Build(2 * TicksPerSec, 2 * TicksPerSec + 1, 2 * TicksPerSec + 2),
     Build(2 * TicksPerSec + 1, TicksPerSec - 1, TicksPerSec - 1)}

\* listBuilds(packageID, createdAfter): builds created after the cutoff, each
\* with its own build_id
ListBuildsResponses(createdAfter) ==
    LET pool == {b \in BuildPool : b.creation_ts > createdAfter * TicksPerSec}
    IN  {[i \in 1..Len(bs) |-> [bs[i] EXCEPT !.build_id = i]] : bs \in SeqUpTo(pool, MaxBuilds)}

RECURSIVE SumTo(_, _)
SumTo(f, i) == IF i = 0 THEN 0 ELSE f[i] + SumTo(f, i - 1)

\* the readings of now() in the loop over n builds, the clock never going back
Readings(now, n) ==
    {[i \in 1..n |-> now + SumTo(d, i)] : d \in [1..n -> 0..MaxDrift]}

Update(date, user, karma) ==
    [title |-> "ra-1.0-1.fc40", status |-> "stable", date_submitted |-> date,
     user |-> [name |-> user], karma |-> karma, url |-> "https://bodhi.fedoraproject.org/updates/x"]

UpdatePool ==
    {Update(<<"9">>, <<"a">>, 1), Update(<<"1","0">>, <<"b">>, 0 - 1), Update(<<"9">>, <<"a">>, 0)}

UpdateResponses ==
    {[updates |-> us] : us \in SeqUpTo(UpdatePool, MaxUpdates)} \cup {[total |-> 0]}

(***************************************************************************)
(* The state machine.                                                      *)
(***************************************************************************)
NoSelection == [stage |-> "typed", text |-> <<>>, steps |-> 0]

Call(fn, arg, rsp) == [fn |-> fn, arg |-> arg, rsp |-> rsp]

\* a request that raised (connection error, RPC fault, body that is not JSON)
Failure == [raise |-> TRUE]

Init ==
    /\ pc = "idle"
    /\ keyword = <<>>
    /\ argument = <<>>
    /\ action = "none"
    /\ ret = NoAction
    /\ calls = <<>>
    /\ clock = <<>>
    /\ selected = NoSelection

\* a query event is queued for on_event; the previous result is gone
Queue(kw, arg, sel) ==
    /\ pc' = "pending"
    /\ keyword' = kw
    /\ argument' = arg
    /\ selected' = sel
    /\ action' = "none"
    /\ ret' = NoAction
    /\ calls' = <<>>
    /\ clock' = <<>>

\* on_event returns (or raises)
Return(branch, value, made, readings) ==
    /\ pc' = "done"
    /\ action' = branch
    /\ ret' = value
    /\ calls' = made
    /\ clock' = readings
    /\ UNCHANGED <<keyword, argument, selected>>

\* the user types a query
HostQuery ==
    /\ pc \in {"idle", "done"}
    /\ \E kw \in Keywords, arg \in Args : Queue(kw, arg, NoSelection)

\* the user selects an item whose action rewrites the query
SelectItem ==
    /\ pc = "done"
    /\ ret.kind \in {"RenderResultListAction", "list"}
    /\ \E i \in 1..Len(ret.items) :
          LET on_enter == ret.items[i].on_enter
          IN  /\ on_enter.type = "SetUserQueryAction"
              /\ Queue(HostKeyword(on_enter.arg), HostArgument(on_enter.arg),
                       [stage |-> IF action \in {"search_pkg_src", "return_project_list"}
                                  THEN "project" ELSE "option",
                        text |-> on_enter.arg,
                        steps |-> selected.steps + 1])

\* the user selects an item that opens a URL or hides the window
Activate ==
    /\ pc = "done"
    /\ ret.kind \in {"RenderResultListAction", "list"}
    /\ \E i \in 1..Len(ret.items) :
          ret.items[i].on_enter.type \in {"OpenUrlAction", "HideWindowAction"}
    /\ pc' = "idle"
    /\ keyword' = <<>>
    /\ argument' = <<>>
    /\ action' = "none"
    /\ ret' = NoAction
    /\ calls' = <<>>
    /\ clock' = <<>>
    /\ selected' = NoSelection

OnEventProjectList ==
    /\ pc = "pending"
    /\ on_event_branch(argument) = "return_project_list"
    /\ \E site \in Sites :
          LET fetched == fetch_user_projects(site)
          IN  Return("return_project_list", return_project_list(keyword, site),
                     [k \in 1..Len(fetched.requested) |->
                         Call("GET https://src.fedoraproject.org/api/0/user/",
                              fetched.requested[k], site[fetched.requested[k]])],
                     <<>>)

OnEventSearch ==
    /\ pc = "pending"
    /\ on_event_branch(argument) = "search_pkg_src"
    /\ LET search_arg == Split(argument)[1]
           request == search_request(search_arg)
       IN  \/ \E json \in SearchResponses :
                 Return("search_pkg_src", search_pkg_src(keyword, search_arg, json),
                        <<Call(request.fn, request.arg, json)>>, <<>>)
           \/ Return("search_pkg_src", Raised,
                     <<Call(request.fn, request.arg, Failure)>>, <<>>)

OnEventOptions ==
    /\ pc = "pending"
    /\ on_event_branch(argument) = "get_package_options"
    /\ Return("get_package_options",
              BareList(get_package_options(keyword, Split(argument)[1])), <<>>, <<>>)

OnEventBuilds ==
    /\ pc = "pending"
    /\ on_event_branch(argument) = "get_builds"
    /\ LET package == Split(argument)[1]
       IN  \/ Return("get_builds", Raised, <<Call("getPackage", package, Failure)>>, <<>>)
           \/ Return("get_builds", get_builds(keyword, package, <<>>, <<>>, <<>>),
                     <<Call("getPackage", package, <<>>)>>, <<>>)
           \/ \E now \in NowValues :
              \E builds \in ListBuildsResponses(cutoff_ts(now)) :
              \E readings \in Readings(now, Len(builds)) :
                 Return("get_builds",
                        get_builds(keyword, package, <<[id |-> 1]>>, builds, readings),
                        <<Call("getPackage", package, <<[id |-> 1]>>),
                          Call("listBuilds", [packageID |-> 1, createdAfter |-> cutoff_ts(now)],
                               builds)>>,
                        <<now>> \o readings)

OnEventUpdates ==
    /\ pc = "pending"
    /\ on_event_branch(argument) = "get_updates"
    /\ LET package == Split(argument)[1]
       IN  \/ \E res \in UpdateResponses :
                 Return("get_updates", get_updates(keyword, package, res),
                        <<Call("BodhiClient.query", package, res)>>, <<>>)
           \/ Return("get_updates", Raised,
                     <<Call("BodhiClient.query", package, Failure)>>, <<>>)

OnEventFilter ==
    /\ pc = "pending"
    /\ on_event_branch(argument) = "filter"
    /\ LET args == Split(argument)
       IN  Return("filter",
                  BareList(filter_options(get_package_options(keyword, args[1]), args[2])),
                  <<>>, <<>>)

OnEventNone ==
    /\ pc = "pending"
    /\ on_event_branch(argument) = "none"
    /\ Return("none", NoAction, <<>>, <<>>)

Next ==
    \/ HostQuery
    \/ SelectItem
    \/ Activate
    \/ OnEventProjectList
    \/ OnEventSearch
    \/ OnEventOptions
    \/ OnEventBuilds
    \/ OnEventUpdates
    \/ OnEventFilter
    \/ OnEventNone

Spec == Init /\ [][Next]_vars

(***************************************************************************)
(* Vocabulary of the properties, stated on characters and independent of   *)
(* the operators above.                                                    *)
(***************************************************************************)
Returned == pc = "done" /\ ret.kind # "raise"

\* the positions where a whitespace-delimited token starts
TokenStarts(s) == {i \in 1..Len(s) : ~IsSpace(s[i]) /\ (i = 1 \/ IsSpace(s[i-1]))}
TokenCount(s) == Cardinality(TokenStarts(s))

\* the k-th token of s
TokenAt(s, k) ==
    LET from == CHOOSE i \in TokenStarts(s) :
                    Cardinality({j \in TokenStarts(s) : j < i}) = k - 1
        to == CHOOSE j \in from..Len(s) :
                  /\ \A m \in from..j : ~IsSpace(s[m])
                  /\ (j = Len(s) \/ IsSpace(s[j+1]))
    IN  SubSeq(s, from, to)

Names(items) == [i \in 1..Len(items) |-> items[i].name]

\* the titles of the action menu of package p under keyword kw
MenuTitles(kw, p) ==
    << <<"G","o","t","o"," ">> \o p \o <<" ","s","r","c">>,
       kw \o <<" ">> \o p \o <<" ","b","u","i","l","d","s">>,
       kw \o <<" ">> \o p \o <<" ","u","p","d","a","t","e","s">> >>

\* the last word of each menu title, in menu order
MenuWords == << <<"s","r","c">>, <<"b","u","i","l","d","s">>, <<"u","p","d","a","t","e","s">> >>

HasPrefix(word, prefix) ==
    /\ Len(prefix) <= Len(word)
    /\ \A k \in 1..Len(prefix) : word[k] = prefix[k]

\* C1 (as claimed): every list-producing action returns at least one item.
C1_NeverEmptyList ==
    (Returned /\ action \in {"return_project_list", "search_pkg_src", "get_package_options",
                             "filter", "get_builds", "get_updates"})
        => Len(ret.items) >= 1

FirstSegment(name) ==
    LET cut == IF \E i \in 1..Len(name) : name[i] = "/"
               THEN CHOOSE i \in 1..Len(name) :
                        name[i] = "/" /\ \A j \in 1..(i-1) : name[j] # "/"
               ELSE Len(name) + 1
    IN  SubSeq(name, 1, cut - 1)

NamespaceRank(name) ==
    IF FirstSegment(name) = <<"r","p","m","s">> THEN 0
    ELSE IF FirstSegment(name) = <<"f","o","r","k">> THEN 1
    ELSE 2

\* C3: search-projects returns its items ordered ascending by (namespace rank,
\* title length), rank 0 for 'rpms', 1 for 'fork', 2 otherwise; so every 'rpms'
\* item precedes every 'fork' item, which precedes every other item.
C3_SearchSorted ==
    (Returned /\ action = "search_pkg_src") =>
        \A i, j \in 1..Len(ret.items) :
            i < j =>
                LET a == ret.items[i].name
                    b == ret.items[j].name
                IN  /\ NamespaceRank(a) <= NamespaceRank(b)
                    /\ NamespaceRank(a) = NamespaceRank(b) => Len(a) <= Len(b)

\* C3 witness: the service listed a longer 'apps' project, then a 'fork' project,
\* then an 'rpms' project whose name sorts last alphabetically; the result is reversed
C3_Witness ==
    /\ Returned
    /\ action = "search_pkg_src"
    /\ "projects" \in DOMAIN calls[1].rsp
    /\ Len(calls[1].rsp.projects) >= 2
    /\ Len(ret.items) = Len(calls[1].rsp.projects)
    /\ NamespaceRank(calls[1].rsp.projects[1].fullname) = 1
    /\ NamespaceRank(calls[1].rsp.projects[2].fullname) = 0
    /\ NamespaceRank(ret.items[1].name) = 0
    /\ NamespaceRank(ret.items[2].name) = 1
    /\ Len(ret.items[1].name) > Len(ret.items[2].name)

\* C4 (as claimed): search-projects returns between 1 and 20 items, whatever
\* the search endpoint answers.
C4_AtMostTwenty ==
    (Returned /\ action = "search_pkg_src") =>
        (Len(ret.items) >= 1 /\ Len(ret.items) <= 20)

\* the build record an item of list-builds was made from
BuildOf(item) == calls[2].rsp[item.on_enter.arg.rest]

\* completion_ts if set, else start_ts, else creation_ts
Effective(build) ==
    IF build.completion_ts # NoTs THEN build.completion_ts
    ELSE IF build.start_ts # NoTs THEN build.start_ts
    ELSE build.creation_ts

ListedBuilds == Returned /\ action = "get_builds" /\ Len(calls) = 2 /\ calls[2].rsp # <<>>

\* C5 (as claimed): no build item has an effective timestamp earlier than
\* invocation time - 604800 s.
C5_EffectiveWithinWindow ==
    ListedBuilds =>
        \A i \in 1..Len(ret.items) :
            Effective(BuildOf(ret.items[i])) >= clock[1] - 604800 * TicksPerSec

\* C5 (amended): list-builds asks the build service for the builds created
\* after the whole second at or below invocation time - 604800 s and returns
\* one item for every build the service lists, so every item's creation
\* timestamp is later than that cutoff; the effective timestamp is not checked.
C5_CreatedAfterCutoff ==
    ListedBuilds =>
        LET cutoff == calls[2].arg.createdAfter
        IN  /\ cutoff * TicksPerSec <= clock[1] - 604800 * TicksPerSec
            /\ clock[1] - 604800 * TicksPerSec < (cutoff + 1) * TicksPerSec
            /\ Len(ret.items) = Len(calls[2].rsp)
            /\ \A k \in 1..Len(calls[2].rsp) :
                  \E i \in 1..Len(ret.items) : ret.items[i].on_enter.arg.rest = k
            /\ \A i \in 1..Len(ret.items) :
                  BuildOf(ret.items[i]).creation_ts > cutoff * TicksPerSec

\* C5 witness: a listed build whose effective timestamp is older than the
\* exact window although it was created after the cutoff
C5_Witness ==
    /\ ListedBuilds
    /\ \E i \in 1..Len(ret.items) :
          /\ Effective(BuildOf(ret.items[i])) < clock[1] - 604800 * TicksPerSec
          /\ BuildOf(ret.items[i]).creation_ts > calls[2].arg.createdAfter * TicksPerSec

\* C6 (as claimed): the items of list-builds are ordered by display timestamp,
\* most recent first.
C6_RecencyDescending ==
    ListedBuilds =>
        \A i, j \in 1..Len(ret.items) :
            i < j => ret.items[i].description.useful_time >= ret.items[j].description.useful_time

C8_ReturnsRenderOrNone ==
    Returned => ret.kind \in {"None", "RenderResultListAction"}

\* the fullnames of the repositories of the pages requested, page after page
RECURSIVE RepoNames(_)
RepoNames(cs) ==
    IF cs = <<>> THEN <<>>
    ELSE RepoNames(SubSeq(cs, 1, Len(cs) - 1))
             \o [i \in 1..Len(cs[Len(cs)].rsp.repos) |-> cs[Len(cs)].rsp.repos[i].fullname]

\* the cursor of a page, 0 when repos_pagination or its next is absent
Cursor(page) ==
    IF "repos_pagination" \in DOMAIN page THEN page.repos_pagination.next ELSE 0

\* C9: list-user-projects follows repos_pagination.next from the first page
\* until it is absent, requesting each page of the chain exactly once, in
\* order; the list returned holds one item per repository of every page, in
\* page order and in-page order; if a page request fails nothing is returned.
C9_Pagination ==
    (pc = "done" /\ action = "return_project_list") =>
        LET n == Len(calls)
            ok(k) == "repos" \in DOMAIN calls[k].rsp
        IN  /\ n >= 1
            /\ \A k \in 1..n : calls[k].arg = k
            /\ \A k \in 1..(n-1) : ok(k) /\ Cursor(calls[k].rsp) = k + 1
            /\ IF ok(n)
               THEN /\ Cursor(calls[n].rsp) = 0
                    /\ ret.kind = "RenderResultListAction"
                    /\ Names(ret.items) = RepoNames(calls)
               ELSE /\ ret.kind = "raise"
                    /\ ret.items = <<>>

\* C9 witness: two pages were followed and the list holds more items than
\* either page alone
C9_Witness ==
    /\ pc = "done"
    /\ action = "return_project_list"
    /\ Len(calls) = 2
    /\ ret.kind = "RenderResultListAction"
    /\ Len(ret.items) = 4
    /\ ret.items[2].name # ret.items[3].name

\* the projects the last search or user-repositories listing was answered with
ListedProjects ==
    IF action = "search_pkg_src"
    THEN {calls[1].rsp.projects[i] : i \in 1..Len(calls[1].rsp.projects)}
    ELSE UNION {{calls[k].rsp.repos[i] : i \in 1..Len(calls[k].rsp.repos)} : k \in 1..Len(calls)}

WhitespaceFree(p) == p # <<>> /\ \A i \in 1..Len(p) : ~IsSpace(p[i])

====
